---- MODULE Spec2Model ----
(***************************************************************************)
(* Model of crawl.py, the incremental mirror of a Yuque account            *)
(* (account -> repositories -> documents) into storage/.meta.              *)
(*                                                                         *)
(* The remote side is the data served by the Yuque API; it changes only    *)
(* between runs.  The store is the tree of files under meta_dir.  One run  *)
(* of main() is a sequence of steps, one per remote request or local pass. *)
(* An optional value (a file that may not exist, a Python None) is a set   *)
(* with at most one element.  Timestamps are integers in milliseconds.     *)
(***************************************************************************)
EXTENDS Integers, Sequences, FiniteSets, TLC

\* Bounds of the model
MaxRuns == 3
MaxEdits == 2
RepoSlugs == {"x", "y"}
DocSlugs == {"a", "docs"}
Stamps == {1000, 2000, 4000}

\* An updated_at field that is absent or that dateutil cannot parse
Malformed == -1
StampVals == Stamps \cup {Malformed}

MsPerSecond == 1000
SecondsPerDay == 86400

VARIABLES
    rUser,          \* remote: the account record
    rRepos,         \* remote: the repository list of the account, in remote order
    rDocs,          \* remote: the document list of each repository, in remote order
    fs,             \* the store under meta_dir
    pc,             \* position of main(): idle, done, error or a step of the run
    user_info,      \* main: user_info
    repos,          \* main: repos
    cached_repos,   \* main: cached_repos
    i,              \* main: index of the repository loop (1-based)
    repo,           \* crawl_repo: repo
    docs,           \* crawl_repo: docs
    cached_docs,    \* crawl_repo: cached_docs
    j,              \* crawl_repo: index of the document loop (1-based)
    log,            \* events of the current run, in order
    fs0,            \* the store when the current run started
    prev,           \* the store left by the previous run, when that run completed
                    \* and the remote state has not changed since
    pending,        \* the repositories whose scan was cut short by an abort and not
                    \* finished since, the remote state unchanged
    nruns,          \* number of runs started
    nedits,         \* number of changes of the remote state
    cmp             \* inputs and result of one has_update evaluation (SpecCmp)

remoteVars == <<rUser, rRepos, rDocs>>
localVars == <<user_info, repos, cached_repos, i, repo, docs, cached_docs, j>>
obsVars == <<log, fs0, prev, pending>>
vars == <<rUser, rRepos, rDocs, fs, pc, user_info, repos, cached_repos, i, repo,
          docs, cached_docs, j, log, fs0, prev, pending, nruns, nedits, cmp>>

----------------------------------------------------------------------------
\* Records and lists

Entry(slug, t) == [slug |-> slug, updated_at |-> t]

Slugs(list) == {list[k].slug : k \in 1..Len(list)}

\* [x for x in cached if x[id_key] == slug]
Candidates(list, slug) == SelectSeq(list, LAMBDA x : x.slug = slug)

Without(list, slug) == SelectSeq(list, LAMBDA x : x.slug # slug)

Restamp(list, slug, t) ==
    [k \in 1..Len(list) |-> IF list[k].slug = slug THEN Entry(slug, t) ELSE list[k]]

\* SDK.get_user
UserRecord == [login |-> "u", updated_at |-> rUser]

\* SDK.get_repo_detail: the repository record with its table of contents
TocOf(r) == [k \in 1..Len(rDocs[r]) |-> rDocs[r][k].slug]
RepoDetail(r) ==
    [slug |-> r,
     updated_at |-> (CHOOSE e \in {rRepos[k] : k \in 1..Len(rRepos)} : e.slug = r).updated_at,
     toc_yml |-> TocOf(r)]

\* SDK.get_doc_detail
DocDetail(r, d) ==
    CHOOSE e \in {rDocs[r][k] : k \in 1..Len(rDocs[r])} : e.slug = d

----------------------------------------------------------------------------
\* has_update

\* timedelta.seconds: the seconds field of the normalised difference,
\* 0 <= seconds < 86400, days carrying the sign
timedelta_seconds(diff) == (diff % (SecondsPerDay * MsPerSecond)) \div MsPerSecond

\* a parse that never raises
ParseFails_Never(cached_d, d) == FALSE

\* dateutil.parser.parse raises on either value
ParseFails(cached_d, d) == cached_d.updated_at = Malformed \/ d.updated_at = Malformed

\* the comparison written as "not earlier"
has_update_NotEarlier(cached_d, d) ==
    timedelta_seconds(d.updated_at - cached_d.updated_at) >= 0

has_update(cached_d, d) == timedelta_seconds(d.updated_at - cached_d.updated_at) > 0

----------------------------------------------------------------------------
\* The store

EmptyRepoDir == [dir |-> FALSE, repo |-> {}, docs |-> {}, toc |-> {},
                 det |-> [d \in DocSlugs |-> {}]]

EmptyStore(loginDir) == [user |-> {}, loginDir |-> loginDir, repos |-> {},
                         ns |-> [r \in RepoSlugs |-> EmptyRepoDir]]

\* the names taken from the cached repository list instead of the directories
get_local_repo_names_FromList(store) ==
    IF store.repos = {} THEN {} ELSE Slugs(CHOOSE l \in store.repos : TRUE)

\* Cache.get_local_repo_names: the directories under meta_dir/login
get_local_repo_names(store) == {r \in RepoSlugs : store.ns[r].dir}

\* Cache.get_doc_names: the *.json files under meta_dir/namespace/docs
get_doc_names(store, r) == {d \in DocSlugs : store.ns[r].det[d] # {}}

\* the membership test inverted
OrphanRepos_Inverted(store, list) == {r \in get_local_repo_names(store) : r \in Slugs(list)}

\* "Remove old repos": the local names that are not in the remote list
OrphanRepos(store, list) == {r \in get_local_repo_names(store) : r \notin Slugs(list)}

\* "Remove old docs": the cached names that are not in the remote list
OrphanDocs(store, r, list) == {d \in get_doc_names(store, r) : d \notin Slugs(list)}

\* os.remove(f'{meta_dir}/{namespace}/{doc_name}.json') when that path exists:
\* the files of that form in a repository directory are docs.json and repo.json
RemoveNamed(rdir, names) ==
    [rdir EXCEPT !.docs = IF "docs" \in names THEN {} ELSE @,
                 !.repo = IF "repo" \in names THEN {} ELSE @]

RemovedFiles(rdir, names) ==
    {n \in names : (n = "docs" /\ rdir.docs # {}) \/ (n = "repo" /\ rdir.repo # {})}

\* the events of a set of names, in sorted order (any fixed order of the names)
RECURSIVE EventsOf(_, _, _)
EventsOf(kind, r, names) ==
    IF names = {} THEN <<>>
    ELSE LET n == CHOOSE m \in names : TRUE
         IN  <<(<<"remove", kind, r, n>>)>> \o EventsOf(kind, r, names \ {n})

----------------------------------------------------------------------------
\* Initial state

InitRemote ==
    /\ rUser = 2000
    /\ rRepos \in {<<Entry("x", 2000)>>, <<Entry("x", 2000), Entry("y", 2000)>>}
    /\ rDocs \in {[r \in RepoSlugs |-> IF r \in Slugs(rRepos) THEN l ELSE <<>>] :
                    l \in {<<Entry("a", 2000)>>,
                           <<Entry("a", 2000), Entry("docs", 2000)>>}}

InitLocals ==
    /\ user_info = {}
    /\ repos = <<>>
    /\ cached_repos = {}
    /\ i = 0
    /\ repo = {}
    /\ docs = <<>>
    /\ cached_docs = {}
    /\ j = 0

NoCmp == [cached |-> 0, current |-> 0, result |-> "none"]

\* Nothing has been cached.  main creates meta_dir but not meta_dir/login;
\* that directory is there only if something else made it, so both cases
\* are initial states.
Init ==
    /\ InitRemote
    /\ fs \in {EmptyStore(FALSE), EmptyStore(TRUE)}
    /\ pc = "idle"
    /\ InitLocals
    /\ log = <<>>
    /\ fs0 = fs
    /\ prev = {}
    /\ pending = {}
    /\ nruns = 0
    /\ nedits = 0
    /\ cmp = NoCmp

----------------------------------------------------------------------------
\* Steps of a run

InRun == pc \notin {"idle", "done", "error"}

ResetLocals ==
    /\ user_info' = {}
    /\ repos' = <<>>
    /\ cached_repos' = {}
    /\ i' = 0
    /\ repo' = {}
    /\ docs' = <<>>
    /\ cached_docs' = {}
    /\ j' = 0

\* an uncaught exception ends the process
Abort(event) ==
    /\ pc' = "error"
    /\ log' = Append(log, event)
    /\ ResetLocals
    /\ pending' = IF pc \in {"get_docs", "remove_docs", "crawl_docs"}
                  THEN pending \cup {repos[i].slug}
                  ELSE pending
    /\ UNCHANGED <<remoteVars, fs, fs0, prev, nruns, nedits, cmp>>

\* SDK.request when the status is not 200
RequestFailed(api) == Abort(<<"fail">> \o api)

\* The per-entity test of both loops: no cached list or no cached entry of
\* that slug: fetch; otherwise has_update decides, or raises
\* every entity taken as new
Decide_AlwaysFetch(cached, e) == "fetch"

Decide(cached, e) ==
    LET cands == IF cached = {} THEN <<>>
                 ELSE Candidates(CHOOSE l \in cached : TRUE, e.slug)
    IN  IF cands = <<>> THEN "fetch"
        ELSE IF ParseFails(cands[1], e) THEN "raise"
        ELSE IF has_update(cands[1], e) THEN "fetch"
        ELSE "skip"

\* the test of a single cached record against a fetched one
DecideRecord(cached, e) == Decide(IF cached = {} THEN {} ELSE {<<CHOOSE c \in cached : TRUE>>}, e)

StartRun ==
    /\ pc \in {"idle", "done", "error"}
    /\ nruns < MaxRuns
    /\ pc' = "get_user"
    /\ nruns' = nruns + 1
    /\ log' = <<>>
    /\ fs0' = fs
    /\ prev' = IF pc = "done" THEN {fs} ELSE {}
    /\ UNCHANGED <<remoteVars, fs, localVars, pending, nedits, cmp>>

\* main: the account record
GetUser ==
    /\ pc = "get_user"
    /\ LET u == UserRecord
           dec == DecideRecord({[slug |-> "u", updated_at |-> c.updated_at] : c \in fs.user},
                               [slug |-> "u", updated_at |-> u.updated_at])
       IN  IF dec = "raise"
           THEN Abort(<<"raise", "user">>)
           ELSE /\ user_info' = {u}
                /\ fs' = IF dec = "fetch" THEN [fs EXCEPT !.user = {u}] ELSE fs
                /\ log' = log \o <<(<<"fetch", "user">>)>> \o
                          (IF dec = "fetch" THEN <<(<<"write", "user">>)>> ELSE <<>>)
                /\ pc' = "get_repos"
                /\ UNCHANGED <<remoteVars, repos, cached_repos, i, repo, docs,
                               cached_docs, j, fs0, prev, pending, nruns, nedits, cmp>>

GetUserFail ==
    /\ pc = "get_user"
    /\ RequestFailed(<<"user">>)

\* main: the repository list
GetRepos ==
    /\ pc = "get_repos"
    /\ repos' = rRepos
    /\ log' = Append(log, <<"fetch", "repos">>)
    /\ pc' = "remove_repos"
    /\ UNCHANGED <<remoteVars, fs, user_info, cached_repos, i, repo, docs,
                   cached_docs, j, fs0, prev, pending, nruns, nedits, cmp>>

\* the failure logged and an empty list used in place of the answer
GetReposFail_Empty ==
    /\ pc = "get_repos"
    /\ repos' = <<>>
    /\ log' = Append(log, <<"fail", "repos">>)
    /\ pc' = "remove_repos"
    /\ UNCHANGED <<remoteVars, fs, user_info, cached_repos, i, repo, docs,
                   cached_docs, j, fs0, prev, pending, nruns, nedits, cmp>>

GetReposFail ==
    /\ pc = "get_repos"
    /\ RequestFailed(<<"repos">>)

\* main: "Remove old repos", then the read of the cached repository list.
\* os.listdir raises when meta_dir/login does not exist.
RemoveOldRepos ==
    /\ pc = "remove_repos"
    /\ IF ~fs.loginDir
       THEN Abort(<<"raise", "listdir">>)
       ELSE LET orphans == OrphanRepos(fs, repos)
            IN  /\ fs' = [fs EXCEPT !.ns = [r \in RepoSlugs |->
                                        IF r \in orphans THEN EmptyRepoDir ELSE fs.ns[r]]]
                /\ log' = log \o EventsOf("repodir", "u", orphans)
                /\ cached_repos' = fs.repos
                /\ i' = 1
                /\ pc' = "crawl_repos"
                /\ UNCHANGED <<remoteVars, user_info, repos, repo, docs, cached_docs, j,
                               fs0, prev, pending, nruns, nedits, cmp>>

\* main: one iteration of "Crawling new repos" up to the call of crawl_repo
CrawlRepos ==
    /\ pc = "crawl_repos"
    /\ i <= Len(repos)
    /\ LET dec == Decide(cached_repos, repos[i])
       IN  CASE dec = "raise" -> Abort(<<"raise", "repo", repos[i].slug>>)
             [] dec = "skip" ->
                   /\ i' = i + 1
                   /\ log' = Append(log, <<"skip", "repo", repos[i].slug>>)
                   /\ UNCHANGED <<remoteVars, fs, pc, user_info, repos, cached_repos, repo,
                                  docs, cached_docs, j, fs0, prev, pending, nruns, nedits, cmp>>
             [] dec = "fetch" ->
                   /\ pc' = "get_repo_detail"
                   /\ UNCHANGED <<remoteVars, fs, localVars, obsVars, nruns, nedits, cmp>>

\* the entries already cached kept, the new ones added
SaveRepos_Merged ==
    /\ pc = "crawl_repos"
    /\ i > Len(repos)
    /\ fs' = [fs EXCEPT !.loginDir = TRUE,
                        !.repos = {[k \in 1..Len(repos) |->
                                      IF cached_repos = {} \/
                                         Candidates(CHOOSE l \in cached_repos : TRUE,
                                                    repos[k].slug) = <<>>
                                      THEN repos[k]
                                      ELSE Candidates(CHOOSE l \in cached_repos : TRUE,
                                                      repos[k].slug)[1]]}]
    /\ log' = Append(log, <<"write", "repos">>)
    /\ pc' = "done"
    /\ ResetLocals
    /\ UNCHANGED <<remoteVars, fs0, prev, pending, nruns, nedits, cmp>>

\* main: the repository list is saved after the loop; the run is complete
SaveRepos ==
    /\ pc = "crawl_repos"
    /\ i > Len(repos)
    /\ fs' = [fs EXCEPT !.repos = {repos}, !.loginDir = TRUE]
    /\ log' = Append(log, <<"write", "repos">>)
    /\ pc' = "done"
    /\ ResetLocals
    /\ UNCHANGED <<remoteVars, fs0, prev, pending, nruns, nedits, cmp>>

\* the repository detail saved as soon as it is fetched
GetRepoDetail_SaveFirst ==
    /\ pc = "get_repo_detail"
    /\ LET ns == repos[i].slug
           det == RepoDetail(ns)
           dec == DecideRecord({[slug |-> ns, updated_at |-> c.updated_at] : c \in fs.ns[ns].repo},
                               [slug |-> ns, updated_at |-> det.updated_at])
       IN  CASE dec = "raise" -> Abort(<<"raise", "repo_detail", ns>>)
             [] dec = "skip" ->
                   /\ log' = log \o <<(<<"fetch", "repo", ns>>), (<<"return", ns>>)>>
                   /\ i' = i + 1
                   /\ pc' = "crawl_repos"
                   /\ UNCHANGED <<remoteVars, fs, user_info, repos, cached_repos, repo,
                                  docs, cached_docs, j, fs0, prev, pending, nruns, nedits, cmp>>
             [] dec = "fetch" ->
                   /\ repo' = {det}
                   /\ fs' = [fs EXCEPT !.ns[ns].repo = {det}, !.ns[ns].dir = TRUE,
                                       !.loginDir = TRUE]
                   /\ log' = Append(log, <<"fetch", "repo", ns>>)
                   /\ pc' = "get_docs"
                   /\ UNCHANGED <<remoteVars, user_info, repos, cached_repos, i,
                                  docs, cached_docs, j, fs0, prev, pending, nruns, nedits, cmp>>

\* crawl_repo: the repository detail and the shortcut
GetRepoDetail ==
    /\ pc = "get_repo_detail"
    /\ LET ns == repos[i].slug
           det == RepoDetail(ns)
           dec == DecideRecord({[slug |-> ns, updated_at |-> c.updated_at] : c \in fs.ns[ns].repo},
                               [slug |-> ns, updated_at |-> det.updated_at])
       IN  CASE dec = "raise" -> Abort(<<"raise", "repo_detail", ns>>)
             [] dec = "skip" ->
                   /\ log' = log \o <<(<<"fetch", "repo", ns>>), (<<"return", ns>>)>>
                   /\ i' = i + 1
                   /\ pc' = "crawl_repos"
                   /\ UNCHANGED <<remoteVars, fs, user_info, repos, cached_repos, repo,
                                  docs, cached_docs, j, fs0, prev, pending, nruns, nedits, cmp>>
             [] dec = "fetch" ->
                   /\ repo' = {det}
                   /\ log' = Append(log, <<"fetch", "repo", ns>>)
                   /\ pc' = "get_docs"
                   /\ UNCHANGED <<remoteVars, fs, user_info, repos, cached_repos, i,
                                  docs, cached_docs, j, fs0, prev, pending, nruns, nedits, cmp>>

GetRepoDetailFail ==
    /\ pc = "get_repo_detail"
    /\ RequestFailed(<<"repo", repos[i].slug>>)

\* crawl_repo: the document list
GetDocs ==
    /\ pc = "get_docs"
    /\ docs' = rDocs[repos[i].slug]
    /\ log' = Append(log, <<"fetch", "docs", repos[i].slug>>)
    /\ pc' = "remove_docs"
    /\ UNCHANGED <<remoteVars, fs, user_info, repos, cached_repos, i, repo,
                   cached_docs, j, fs0, prev, pending, nruns, nedits, cmp>>

GetDocsFail ==
    /\ pc = "get_docs"
    /\ RequestFailed(<<"docs", repos[i].slug>>)

\* crawl_repo: "Remove old docs", then the read of the cached document list
RemoveOldDocs ==
    /\ pc = "remove_docs"
    /\ LET ns == repos[i].slug
           orphans == OrphanDocs(fs, ns, docs)
           rdir == RemoveNamed(fs.ns[ns], orphans)
       IN  /\ fs' = [fs EXCEPT !.ns[ns] = rdir]
           /\ log' = log \o EventsOf("file", ns, RemovedFiles(fs.ns[ns], orphans))
           /\ cached_docs' = rdir.docs
    /\ j' = 1
    /\ pc' = "crawl_docs"
    /\ UNCHANGED <<remoteVars, user_info, repos, cached_repos, i, repo, docs,
                   fs0, prev, pending, nruns, nedits, cmp>>

\* crawl_repo: one iteration of "Crawl new docs"
CrawlDoc ==
    /\ pc = "crawl_docs"
    /\ j <= Len(docs)
    /\ LET ns == repos[i].slug
           doc == docs[j]
           dec == Decide(cached_docs, doc)
       IN  CASE dec = "raise" -> Abort(<<"raise", "doc", ns, doc.slug>>)
             [] dec = "skip" ->
                   /\ j' = j + 1
                   /\ log' = Append(log, <<"skip", "doc", ns, doc.slug>>)
                   /\ UNCHANGED <<remoteVars, fs, pc, user_info, repos, cached_repos, i,
                                  repo, docs, cached_docs, fs0, prev, pending, nruns, nedits, cmp>>
             [] dec = "fetch" ->
                   /\ fs' = [fs EXCEPT !.ns[ns].det[doc.slug] = {DocDetail(ns, doc.slug)},
                                       !.ns[ns].dir = TRUE,
                                       !.loginDir = TRUE]
                   /\ log' = log \o <<(<<"fetch", "doc", ns, doc.slug>>),
                                      (<<"write", "doc", ns, doc.slug>>)>>
                   /\ j' = j + 1
                   /\ UNCHANGED <<remoteVars, pc, user_info, repos, cached_repos, i,
                                  repo, docs, cached_docs, fs0, prev, pending, nruns, nedits, cmp>>

\* the failure logged and the loop continued
GetDocDetailFail_Swallowed ==
    /\ pc = "crawl_docs"
    /\ j <= Len(docs)
    /\ Decide(cached_docs, docs[j]) = "fetch"
    /\ log' = Append(log, <<"fail", "doc", repos[i].slug, docs[j].slug>>)
    /\ j' = j + 1
    /\ UNCHANGED <<remoteVars, fs, pc, user_info, repos, cached_repos, i, repo, docs,
                   cached_docs, fs0, prev, pending, nruns, nedits, cmp>>

GetDocDetailFail ==
    /\ pc = "crawl_docs"
    /\ j <= Len(docs)
    /\ Decide(cached_docs, docs[j]) = "fetch"
    /\ RequestFailed(<<"doc", repos[i].slug, docs[j].slug>>)

\* crawl_repo: the three saves that end the scan of a repository
SaveRepo ==
    /\ pc = "crawl_docs"
    /\ j > Len(docs)
    /\ LET ns == repos[i].slug
           det == CHOOSE d \in repo : TRUE
       IN  /\ fs' = [fs EXCEPT !.ns[ns].docs = {docs},
                               !.ns[ns].toc = {det.toc_yml},
                               !.ns[ns].repo = {det},
                               !.ns[ns].dir = TRUE,
                               !.loginDir = TRUE]
           /\ log' = log \o <<(<<"write", "docs", ns>>), (<<"write", "toc", ns>>),
                              (<<"write", "repo", ns>>)>>
    /\ i' = i + 1
    /\ repo' = {}
    /\ docs' = <<>>
    /\ cached_docs' = {}
    /\ j' = 0
    /\ pc' = "crawl_repos"
    /\ pending' = pending \ {repos[i].slug}
    /\ UNCHANGED <<remoteVars, user_info, repos, cached_repos, fs0, prev, nruns, nedits, cmp>>

----------------------------------------------------------------------------
\* Changes of the remote state, between runs

Edit ==
    /\ pc \in {"done", "error"}
    /\ nedits < MaxEdits
    /\ nedits' = nedits + 1
    /\ pc' = "idle"
    /\ log' = <<>>
    /\ fs0' = fs
    /\ prev' = {}
    /\ pending' = {}
    /\ UNCHANGED <<fs, localVars, nruns, cmp>>

TouchUser ==
    /\ Edit
    /\ \E t \in {4000, Malformed} \ {rUser} : rUser' = t
    /\ UNCHANGED <<rRepos, rDocs>>

SetRepoStamp ==
    /\ Edit
    /\ \E r \in Slugs(rRepos), t \in StampVals :
          /\ rRepos' = Restamp(rRepos, r, t)
          /\ rRepos' # rRepos
    /\ UNCHANGED <<rUser, rDocs>>

AddRepo ==
    /\ Edit
    /\ \E r \in RepoSlugs \ Slugs(rRepos) :
          /\ rRepos' \in {Append(rRepos, Entry(r, 2000)), <<Entry(r, 2000)>> \o rRepos}
          /\ rDocs' = [rDocs EXCEPT ![r] = <<Entry("a", 2000)>>]
    /\ UNCHANGED rUser

RemoveRepo ==
    /\ Edit
    /\ \E r \in Slugs(rRepos) :
          /\ rRepos' = Without(rRepos, r)
          /\ rDocs' = [rDocs EXCEPT ![r] = <<>>]
    /\ UNCHANGED rUser

SetDocStamp ==
    /\ Edit
    /\ \E r \in Slugs(rRepos), t \in StampVals :
          \E d \in Slugs(rDocs[r]) :
             /\ rDocs' = [rDocs EXCEPT ![r] = Restamp(rDocs[r], d, t)]
             /\ rDocs' # rDocs
    /\ UNCHANGED <<rUser, rRepos>>

AddDoc ==
    /\ Edit
    /\ \E r \in Slugs(rRepos) :
          \E d \in DocSlugs \ Slugs(rDocs[r]) :
             rDocs' \in {[rDocs EXCEPT ![r] = Append(@, Entry(d, 2000))],
                         [rDocs EXCEPT ![r] = <<Entry(d, 2000)>> \o @]}
    /\ UNCHANGED <<rUser, rRepos>>

RemoveDoc ==
    /\ Edit
    /\ \E r \in Slugs(rRepos) :
          \E d \in Slugs(rDocs[r]) :
             rDocs' = [rDocs EXCEPT ![r] = Without(@, d)]
    /\ UNCHANGED <<rUser, rRepos>>

----------------------------------------------------------------------------

Next ==
    \/ StartRun
    \/ GetUser
    \/ GetUserFail
    \/ GetRepos
    \/ GetReposFail
    \/ RemoveOldRepos
    \/ CrawlRepos
    \/ SaveRepos
    \/ GetRepoDetail
    \/ GetRepoDetailFail
    \/ GetDocs
    \/ GetDocsFail
    \/ RemoveOldDocs
    \/ CrawlDoc
    \/ GetDocDetailFail
    \/ SaveRepo
    \/ TouchUser
    \/ SetRepoStamp
    \/ AddRepo
    \/ RemoveRepo
    \/ SetDocStamp
    \/ AddDoc
    \/ RemoveDoc

Spec == Init /\ [][Next]_vars

TypeOK ==
    /\ pc \in {"idle", "done", "error", "get_user", "get_repos", "remove_repos",
               "crawl_repos", "get_repo_detail", "get_docs", "remove_docs", "crawl_docs"}
    /\ rUser \in StampVals
    /\ \A r \in RepoSlugs : Cardinality(Slugs(rDocs[r])) = Len(rDocs[r])
    /\ Cardinality(Slugs(rRepos)) = Len(rRepos)
    /\ fs.loginDir \in BOOLEAN

----------------------------------------------------------------------------
\* has_update on its own: the inputs are drawn from CmpStamps, one step
\* evaluates the function as a caller does

CmpBase == 100000000
CmpStamps == {CmpBase - SecondsPerDay * MsPerSecond, CmpBase - 1000, CmpBase - 500,
              CmpBase, CmpBase + 1, CmpBase + 500, CmpBase + 999, CmpBase + 1000,
              CmpBase + 1500, CmpBase + 2000, CmpBase + SecondsPerDay * MsPerSecond,
              Malformed}

InitCmp ==
    /\ rUser = 2000
    /\ rRepos = <<>>
    /\ rDocs = [r \in RepoSlugs |-> <<>>]
    /\ fs = EmptyStore(FALSE)
    /\ pc = "idle"
    /\ InitLocals
    /\ log = <<>>
    /\ fs0 = fs
    /\ prev = {}
    /\ pending = {}
    /\ nruns = 0
    /\ nedits = 0
    /\ cmp \in [cached : CmpStamps, current : CmpStamps, result : {"none"}]

Compare ==
    /\ cmp.result = "none"
    /\ LET cached_d == Entry("d", cmp.cached)
           d == Entry("d", cmp.current)
       IN  cmp' = [cmp EXCEPT !.result =
                      IF ParseFails(cached_d, d) THEN "raise"
                      ELSE IF has_update(cached_d, d) THEN "true" ELSE "false"]
    /\ UNCHANGED <<remoteVars, fs, pc, localVars, obsVars, nruns, nedits>>

NextCmp == Compare

SpecCmp == InitCmp /\ [][NextCmp]_vars

----------------------------------------------------------------------------
\* Reading the log of a run

Has(event) == \E k \in 1..Len(log) : log[k] = event

HasKind(kind) == \E k \in 1..Len(log) : log[k][1] = kind

Last(l) == l[Len(l)]

\* the element of a set of exactly one element
The(opt) == CHOOSE v \in opt : TRUE

\* the cached entry of a slug in an optional cached list, as an optional entry
CachedEntry(cached, slug) ==
    IF cached = {} THEN {}
    ELSE {The(cached)[k] : k \in {n \in 1..Len(The(cached)) : The(cached)[n].slug = slug}}

----------------------------------------------------------------------------
\* C7 (as claimed): has_update(cached, current) is true if and only if
\* current is later than cached by at least one whole second.
C7_Comparator ==
    cmp.result \in {"true", "false"} =>
        ((cmp.result = "true") <=> (cmp.current - cmp.cached >= MsPerSecond))

----------------------------------------------------------------------------
\* C1 (as claimed, for the repositories whose document list the run
\* fetched): after a completed sync no document detail is cached, under a
\* repository of the remote listing, for a slug that is absent from that
\* repository's remote document listing.
C1_NoOrphanDocs ==
    pc = "done" =>
        \A r \in Slugs(rRepos) : \A d \in DocSlugs :
            (Has(<<"fetch", "docs", r>>) /\ fs.ns[r].det[d] # {}) => d \in Slugs(rDocs[r])

\* the repository record cached at the start of the run (list entry and
\* detail) carries the remote updated_at
RepoUnchanged(r) ==
    /\ fs0.ns[r].repo # {}
    /\ The(fs0.ns[r].repo).updated_at = RepoDetail(r).updated_at
    /\ CachedEntry(fs0.repos, r) # {}
    /\ The(CachedEntry(fs0.repos, r)).updated_at = RepoDetail(r).updated_at
    /\ RepoDetail(r).updated_at # Malformed

\* the remote entry e of repository r is later, by delta, than the entry
\* cached in the document list at the start of the run
DocDelta(r, e, delta) ==
    /\ CachedEntry(fs0.ns[r].docs, e.slug) # {}
    /\ The(CachedEntry(fs0.ns[r].docs, e.slug)).updated_at # Malformed
    /\ e.updated_at # Malformed
    /\ e.updated_at - The(CachedEntry(fs0.ns[r].docs, e.slug)).updated_at = delta

\* C2 (as claimed): a document that is newer than its cached entry is
\* fetched and persisted by a completed sync even when the repository's own
\* updated_at is unchanged.
C2_HierarchyIndependence ==
    pc = "done" =>
        \A r \in Slugs(rRepos) : \A k \in 1..Len(rDocs[r]) :
            (RepoUnchanged(r) /\ \E delta \in {1000, 2000, 3000} : DocDelta(r, rDocs[r][k], delta))
                => /\ Has(<<"fetch", "doc", r, rDocs[r][k].slug>>)
                   /\ fs.ns[r].det[rDocs[r][k].slug] = {rDocs[r][k]}

NoPriorState(store) ==
    /\ store.user = {}
    /\ store.repos = {}
    /\ \A r \in RepoSlugs : store.ns[r] = EmptyRepoDir

\* C3 (as claimed): a run that starts without prior state and in which no
\* remote call fails finishes without error, with every remote repository
\* and document fetched and persisted, and nothing deleted.
C3_FirstRun ==
    (pc \in {"done", "error"} /\ NoPriorState(fs0) /\ ~HasKind("fail")) =>
        /\ pc = "done"
        /\ ~HasKind("remove")
        /\ \A r \in Slugs(rRepos) :
              /\ Has(<<"fetch", "repo", r>>)
              /\ fs.ns[r].repo = {RepoDetail(r)}
              /\ fs.ns[r].docs = {rDocs[r]}
              /\ \A k \in 1..Len(rDocs[r]) :
                    /\ Has(<<"fetch", "doc", r, rDocs[r][k].slug>>)
                    /\ fs.ns[r].det[rDocs[r][k].slug] = {rDocs[r][k]}

\* C4 (as claimed): a run that follows a completed run, the remote state
\* unchanged, writes nothing.
C4_ZeroWrites == prev # {} => ~HasKind("write")

\* C4 (amended): a run that follows a completed run, the remote state
\* unchanged, writes no record other than the repository list: no account,
\* repository detail, document list, table of contents or document detail.
C4_OnlyRepoListWritten ==
    prev # {} => \A k \in 1..Len(log) : log[k][1] = "write" => log[k] = <<"write", "repos">>

C4_Witness ==
    /\ pc = "done"
    /\ prev # {}
    /\ Has(<<"write", "repos">>)
    /\ \E r \in RepoSlugs : fs.ns[r].det["a"] # {} /\ fs.ns[r].repo # {}

\* C5: when a run completes after a completed run, the remote state
\* unchanged, the store is the one the previous run left.
C5_SameState == (pc = "done" /\ prev # {}) => prev = {fs}

C5_Witness ==
    /\ pc = "done"
    /\ prev = {fs}
    /\ fs.user # {}
    /\ \E r \in RepoSlugs : fs.ns[r].det["a"] # {} /\ fs.ns[r].docs # {}

IsDocFail(event) == event[1] = "fail" /\ event[2] = "doc"

\* the entries that follow slug d in list l
After(l, d) == {l[k] : k \in {n \in 1..Len(l) : \E m \in 1..(n - 1) : l[m].slug = d}}

C8_UpdatePropagation ==
    pc = "done" =>
        \A r \in {n \in Slugs(rRepos) : Has(<<"fetch", "docs", n>>)} : \A k \in 1..Len(rDocs[r]) :
            /\ DocDelta(r, rDocs[r][k], 2000) =>
                  /\ Has(<<"fetch", "doc", r, rDocs[r][k].slug>>)
                  /\ fs.ns[r].det[rDocs[r][k].slug] = {rDocs[r][k]}
            /\ (DocDelta(r, rDocs[r][k], 0) \/ DocDelta(r, rDocs[r][k], 0 - 1000)) =>
                  ~Has(<<"fetch", "doc", r, rDocs[r][k].slug>>)

\* C9: the pass that removes old repositories empties the directory of
\* every local repository that is absent from the remote list and leaves
\* the directories of the others as they are; when a run completes no
\* repository absent from the remote list has anything in the store.
C9_OrphanRepos ==
    [][ /\ (pc = "remove_repos" /\ pc' = "crawl_repos") =>
              \A r \in RepoSlugs :
                  fs'.ns[r] = IF r \in Slugs(rRepos) THEN fs.ns[r] ELSE EmptyRepoDir
        /\ pc' = "done" =>
              \A r \in RepoSlugs \ Slugs(rRepos') : fs'.ns[r] = EmptyRepoDir ]_vars

C9_Witness ==
    /\ pc = "done"
    /\ fs0.repos = {}
    /\ \E r \in RepoSlugs \ Slugs(rRepos) :
          /\ fs0.ns[r].dir
          /\ fs0.ns[r].repo # {}
          /\ Has(<<"remove", "repodir", "u", r>>)
          /\ fs.ns[r] = EmptyRepoDir
    /\ \E r \in Slugs(rRepos) : fs0.ns[r].dir /\ fs.ns[r].dir

IsStampRaise(event) == event[1] = "raise" /\ event[2] \in {"repo", "repo_detail", "doc"}

\* C10 (as claimed): an absent or unparseable updated_at does not abort the
\* run.
C10_MalformedSkipped ==
    \A k \in 1..Len(log) : IsStampRaise(log[k]) => pc # "error"

\* C10 (amended): when has_update is evaluated for an entity (one that has
\* a cached counterpart) and the updated_at of the cached or of the remote
\* record is absent or unparseable, the error aborts the run at that entity:
\* nothing is fetched or written after it and the repository list is not
\* written; a run completes only if every repository it compared with a
\* cached list entry had a parseable updated_at on both sides.
C10_MalformedAborts ==
    /\ \A k \in 1..Len(log) :
          IsStampRaise(log[k]) => pc = "error" /\ k = Len(log) /\ ~Has(<<"write", "repos">>)
    /\ pc = "done" =>
          \A k \in 1..Len(rRepos) :
              \A c \in CachedEntry(fs0.repos, rRepos[k].slug) :
                  c.updated_at # Malformed /\ rRepos[k].updated_at # Malformed

C10_Witness ==
    /\ pc = "error"
    /\ log # <<>>
    /\ IsStampRaise(Last(log))
    /\ \/ Last(log)[2] = "repo" /\ After(rRepos, Last(log)[3]) # {}
       \/ Last(log)[2] = "doc" /\ After(rDocs[Last(log)[3]], Last(log)[4]) # {}

----------------------------------------------------------------------------
IsTopFail(event) == event = <<"fail", "user">> \/ event = <<"fail", "repos">>

\* an event of the repository or document level: a fetch of a repository
\* detail, a document list or a document detail, a removal, or a write of
\* anything but the account record
IsBelowAccount(event) ==
    \/ event[1] = "fetch" /\ event[2] \in {"repo", "docs", "doc"}
    \/ event[1] = "remove"
    \/ event[1] = "write" /\ event[2] # "user"

\* C11: when the account fetch or the repository-list fetch fails the run
\* ends in error at once: no repository detail, document list or document
\* detail is fetched, no repository or document record is deleted or
\* written, and the cached repository list is as it was.
C11_FatalTopLevel ==
    \A k \in 1..Len(log) :
        IsTopFail(log[k]) =>
            /\ pc = "error"
            /\ k = Len(log)
            /\ \A n \in 1..Len(log) : ~IsBelowAccount(log[n])
            /\ fs.repos = fs0.repos
            /\ fs.ns = fs0.ns

C11_Witness ==
    /\ pc = "error"
    /\ log # <<>>
    /\ Last(log) = <<"fail", "repos">>
    /\ fs0.repos # {}
    /\ \E r \in RepoSlugs \ Slugs(rRepos) : fs0.ns[r].dir
    /\ \E r \in Slugs(rRepos) : fs0.ns[r].docs # {}

----------------------------------------------------------------------------
\* the entry of document d that crawl_repo reads from the cached document
\* list of repository r in the current run: the list is read after the
\* removal pass
ReadEntry(r, d) ==
    IF Has(<<"remove", "file", r, "docs">>) THEN {} ELSE CachedEntry(fs0.ns[r].docs, d)

\* C12 (as claimed): a document detail is fetched only if the comparison
\* of its cached list entry with its remote entry indicates a change, or if
\* no cached detail exists for it.
C12_DetailTracking ==
    \A r \in RepoSlugs : \A d \in DocSlugs :
        Has(<<"fetch", "doc", r, d>>) =>
            \/ \E c \in CachedEntry(fs0.ns[r].docs, d) :
                  ~ParseFails(c, DocDetail(r, d)) /\ has_update(c, DocDetail(r, d))
            \/ fs0.ns[r].det[d] = {}

\* C12 (amended): a document detail is fetched only if has_update of its
\* entry in the cached document list and its remote entry is true, or if
\* no cached list entry is read for it (the list file is absent when it is
\* read, or has no entry of that slug); a document whose cached list entry
\* compares as unchanged is skipped.  The cached detail is not consulted.
C12_ListEntryDecides ==
    \A r \in RepoSlugs : \A d \in DocSlugs :
        /\ Has(<<"fetch", "doc", r, d>>) =>
              \/ ReadEntry(r, d) = {}
              \/ \E c \in ReadEntry(r, d) :
                    ~ParseFails(c, DocDetail(r, d)) /\ has_update(c, DocDetail(r, d))
        /\ Has(<<"skip", "doc", r, d>>) =>
              \E c \in ReadEntry(r, d) :
                  ~ParseFails(c, DocDetail(r, d)) /\ ~has_update(c, DocDetail(r, d))

C12_Witness ==
    /\ pc = "done"
    /\ \E r \in RepoSlugs : \E d \in DocSlugs :
          /\ Has(<<"fetch", "doc", r, d>>)
          /\ fs0.ns[r].det[d] # {}
          /\ fs0.ns[r].docs = {}
    /\ \E r \in RepoSlugs : \E d \in DocSlugs : Has(<<"skip", "doc", r, d>>)

----------------------------------------------------------------------------
\* the remote record e is later than the cached record c by a whole second
\* or more
Newer(c, e) ==
    /\ c.updated_at # Malformed
    /\ e.updated_at # Malformed
    /\ e.updated_at - c.updated_at >= MsPerSecond

NotNewer(c, e) ==
    /\ c.updated_at # Malformed
    /\ e.updated_at # Malformed
    /\ e.updated_at - c.updated_at < MsPerSecond

\* C13 (as claimed): when crawl_repo is called for a repository whose
\* cached detail exists and the fetched detail is not newer, it fetches no
\* document list and no document detail, removes nothing and leaves every
\* record of that repository as it was; the document list, the table of
\* contents and the detail are written only for a repository that had no
\* cached detail or whose fetched detail is newer.
C13_Shortcut ==
    \A r \in RepoSlugs :
        /\ (Has(<<"fetch", "repo", r>>) /\ \E c \in fs0.ns[r].repo : NotNewer(c, RepoDetail(r))) =>
              /\ ~Has(<<"fetch", "docs", r>>)
              /\ \A d \in DocSlugs : ~Has(<<"fetch", "doc", r, d>>)
              /\ \A d \in DocSlugs : ~Has(<<"remove", "file", r, d>>)
              /\ fs.ns[r] = fs0.ns[r]
        /\ (Has(<<"write", "docs", r>>) \/ Has(<<"write", "toc", r>>) \/ Has(<<"write", "repo", r>>)) =>
              \/ fs0.ns[r].repo = {}
              \/ \E c \in fs0.ns[r].repo : Newer(c, RepoDetail(r))

----------------------------------------------------------------------------
\* the position of the first occurrence of an event in the log, 0 if none
PosOf(event) ==
    IF Has(event) THEN CHOOSE k \in 1..Len(log) :
                           log[k] = event /\ \A n \in 1..(k - 1) : log[n] # event
    ELSE 0

\* the run has dealt with repository r: skipped it, returned from crawl_repo
\* at the shortcut, or saved its records
RepoProcessed(r) ==
    Has(<<"skip", "repo", r>>) \/ Has(<<"return", r>>) \/ Has(<<"write", "repo", r>>)

\* C14 (as claimed): the document list of a repository is written after
\* every document of that repository has been dealt with and after the last
\* detail write of that repository; the repository list is written last,
\* after every remote repository has been processed; when the run aborts
\* before a list file is written, that file has its previous content.
C14_ListWrittenLast ==
    /\ \A r \in RepoSlugs :
          Has(<<"write", "docs", r>>) =>
              \A d \in Slugs(rDocs[r]) :
                  /\ Has(<<"fetch", "doc", r, d>>) \/ Has(<<"skip", "doc", r, d>>)
                  /\ PosOf(<<"write", "doc", r, d>>) < PosOf(<<"write", "docs", r>>)
                  /\ PosOf(<<"skip", "doc", r, d>>) < PosOf(<<"write", "docs", r>>)
    /\ Has(<<"write", "repos">>) =>
          /\ PosOf(<<"write", "repos">>) = Len(log)
          /\ \A r \in Slugs(rRepos) : RepoProcessed(r)
    /\ pc = "error" =>
          /\ fs.repos = fs0.repos
          /\ \A r \in Slugs(rRepos) :
                ~Has(<<"write", "docs", r>>) => fs.ns[r].docs = fs0.ns[r].docs

----------------------------------------------------------------------------
\* an event of the per-entity pass of the repository level
IsRepoPass(event) ==
    \/ event[1] \in {"fetch", "fail"} /\ event[2] \in {"repo", "docs", "doc"}
    \/ event[1] = "skip"
    \/ event[1] = "return"
    \/ event[1] = "write" /\ event[2] # "user"

\* an event of the per-entity pass of the document level of repository r
IsDocPass(event, r) ==
    /\ event[1] \in {"fetch", "fail", "skip", "write"}
    /\ event[2] = "doc"
    /\ event[3] = r

\* C15: at each level the removals come before the first fetch or write of
\* the per-entity pass of that level, and while that pass runs nothing that
\* the removal pass removes is left: no local repository directory outside
\* the fetched list, no file at the removal path of a cached document name
\* outside the fetched list.
C15_DeletionFirst ==
    /\ \A k \in 1..Len(log) :
          (log[k][1] = "remove" /\ log[k][2] = "repodir") =>
              \A n \in 1..(k - 1) : ~IsRepoPass(log[n])
    /\ \A k \in 1..Len(log) :
          (log[k][1] = "remove" /\ log[k][2] = "file") =>
              \A n \in 1..(k - 1) : ~IsDocPass(log[n], log[k][3])
    /\ pc \in {"crawl_repos", "get_repo_detail", "get_docs", "remove_docs", "crawl_docs"} =>
          \A r \in RepoSlugs : fs.ns[r].dir => r \in Slugs(repos)
    /\ pc = "crawl_docs" =>
          \A d \in DocSlugs :
              (fs.ns[repos[i].slug].det[d] # {} /\ d \notin Slugs(docs)) =>
                  /\ d = "docs" => fs.ns[repos[i].slug].docs = {}
                  /\ d = "repo" => fs.ns[repos[i].slug].repo = {}

C15_Witness ==
    \E r \in RepoSlugs : \E n \in RepoSlugs :
        /\ Has(<<"remove", "repodir", "u", r>>)
        /\ PosOf(<<"remove", "repodir", "u", r>>) < PosOf(<<"fetch", "repo", n>>)
        /\ PosOf(<<"fetch", "repo", n>>) < PosOf(<<"write", "repo", n>>)

----------------------------------------------------------------------------
\* C16: when a run completes, the cached repository list is the remote
\* repository list of that run and, for every repository whose scan the run
\* finished, the cached document list is the remote document list: the same
\* entries in the same order, none kept from the previous cached list.
C16_SnapshotFidelity ==
    pc = "done" =>
        /\ fs.repos = {rRepos}
        /\ \A r \in RepoSlugs : Has(<<"write", "docs", r>>) => fs.ns[r].docs = {rDocs[r]}

C16_Witness ==
    /\ pc = "done"
    /\ fs0.repos # {}
    /\ fs0.repos # {rRepos}
    /\ Len(rRepos) = 2
    /\ rRepos[1].slug = "y"
    /\ \E r \in RepoSlugs :
          /\ Has(<<"write", "docs", r>>)
          /\ Len(rDocs[r]) = 2
          /\ fs0.ns[r].docs # {}

----------------------------------------------------------------------------
\* C17 (as claimed): the removal pass of the document level changes nothing
\* in the store but the details of orphan documents: the repository detail,
\* the document list, the table of contents and the detail of every document
\* of the remote list are as before, and so is every other repository.
C17_DeletionFrame ==
    [][ (pc = "remove_docs" /\ pc' = "crawl_docs") =>
            /\ fs'.ns[repos[i].slug].repo = fs.ns[repos[i].slug].repo
            /\ fs'.ns[repos[i].slug].docs = fs.ns[repos[i].slug].docs
            /\ fs'.ns[repos[i].slug].toc = fs.ns[repos[i].slug].toc
            /\ \A d \in DocSlugs :
                  fs'.ns[repos[i].slug].det[d] # fs.ns[repos[i].slug].det[d] =>
                      d \notin Slugs(docs) /\ fs'.ns[repos[i].slug].det[d] = {}
            /\ \A r \in RepoSlugs \ {repos[i].slug} : fs'.ns[r] = fs.ns[r]
            /\ fs'.repos = fs.repos
            /\ fs'.user = fs.user ]_vars

----------------------------------------------------------------------------
\* C18: a repository whose scan was cut short by an abort, after crawl_repo
\* had passed its shortcut test, has had neither its detail record nor the
\* repository list written by that run; as long as the remote state is the
\* same no run skips it in the loop of main or returns at the shortcut of
\* crawl_repo, and no run completes without having finished its scan.
C18_RetryAfterAbort ==
    /\ \A r \in pending :
          /\ ~Has(<<"skip", "repo", r>>)
          /\ ~Has(<<"return", r>>)
          /\ ~Has(<<"write", "repo", r>>)
          /\ ~Has(<<"write", "repos">>)
          /\ (Has(<<"fetch", "repo", r>>) /\ pc \notin {"get_repo_detail", "error"}) =>
                Has(<<"fetch", "docs", r>>) \/ pc = "get_docs"
    /\ pc = "done" => pending = {}

C18_Witness ==
    /\ pc = "crawl_docs"
    /\ repos[i].slug \in pending
    /\ Has(<<"fetch", "docs", repos[i].slug>>)
    /\ fs0.ns[repos[i].slug].dir
    /\ fs0.ns[repos[i].slug].repo = {}

----------------------------------------------------------------------------
\* C19: in every reachable state, every document listed in the cached
\* document list of a repository has a cached detail under that repository.
C19_ListedHasDetail ==
    \A r \in RepoSlugs :
        \A l \in fs.ns[r].docs :
            \A k \in 1..Len(l) : fs.ns[r].det[l[k].slug] # {}

C19_Witness ==
    /\ pc = "error"
    /\ nruns >= 2
    /\ \E r \in RepoSlugs :
          /\ Has(<<"fetch", "repo", r>>)
          /\ Last(log)[1] = "fail"
          /\ Last(log)[Len(Last(log))] = r
          /\ \E l \in fs.ns[r].docs :
                /\ Len(l) = 2
                /\ Slugs(l) # Slugs(rDocs[r])
                /\ \A k \in 1..Len(l) : fs.ns[r].det[l[k].slug] # {}

====
